---- MODULE Spec2Model ----
(***************************************************************************)
(* Model of streamlit_app.py: a Streamlit page that uploads a PDF to a     *)
(* bucket, runs an asynchronous Vision OCR batch job on it, merges the     *)
(* JSON shards the job wrote under the output prefix into                  *)
(* transcription.txt, deletes the shards and displays the text.            *)
(*                                                                         *)
(* One script run (main) is modelled per button click.  The OCR handler    *)
(* blocks in operation.result and issues no Streamlit call before it ends, *)
(* so no other click is handled while it runs: its position is pc.         *)
(* The store, the backend and the user are the environment: their answers  *)
(* (listing order, job result, failures) are inputs drawn with \E.         *)
(***************************************************************************)
EXTENDS Integers, Sequences, FiniteSets, TLC

VARIABLES
    upload_completed,   \* st.session_state.upload_completed
    ocr_completed,      \* st.session_state.ocr_completed
    display_completed,  \* st.session_state.display_completed
    uploaded_file,      \* value of st.file_uploader: None or the file's name
    pc,                 \* position of the script run
    status,             \* outcome of the last step (message or exception shown)
    inputObjs,          \* names of the objects under input/
    outputObjs,         \* objects under output/: shard key -> shard
    transcription,      \* content of transcription.txt
    blob_list,          \* write_to_text's local blob_list (keys in listing order)
    calls,              \* the functions the current script run has called, in order
    operation,          \* source name of the job the handler waits on, or None
    stale,              \* source names of timed-out jobs still running remotely
    puts,               \* uploads committed to the store since the last reset
    timedOut,           \* a wait has timed out since the last upload
    submits,            \* submit calls received by the backend since the last upload
    committed,          \* name of the object the Upload block wrote since the last reset
    own,                \* output keys whose object the job of this run wrote
    content,            \* text shown in the text area by the last script run
    fileBefore          \* what write_to_text found in transcription.txt in this run

vars == <<upload_completed, ocr_completed, display_completed, uploaded_file, pc,
          status, inputObjs, outputObjs, transcription, blob_list, calls,
          operation, stale, puts, timedOut, submits, committed, own, content,
          fileBefore>>

----------------------------------------------------------------------------
(* Bounds *)

\* shard keys that may exist under the output prefix when a merge starts
MaxShards == 3
\* shards one job of the pipeline writes
JobShards == 1
\* submit calls per upload cycle
MaxSubmits == 2

None == "None"
FileNames == {"a.pdf", "b.pdf"}

----------------------------------------------------------------------------
(* Shards and page responses *)

\* The text the backend recognises on page m of shard k: a one-symbol string
\* whose symbol names the page.
PageText(k, m) == << <<k, m>> >>

\* A page response carrying a fullTextAnnotation.
AnnotatedPage(k, m) == [fullTextAnnotation |-> [text |-> PageText(k, m)]]

\* A page response without the fullTextAnnotation key.
BlankPage == [context |-> "page"]

\* A shard json.loads accepts, and one it rejects.
Shard(responses) == [valid |-> TRUE, responses |-> responses]
Corrupt == [valid |-> FALSE, responses |-> <<>>]

\* The responses sequences of 1..maxPages pages of shard k; each page carries
\* an annotation or lacks it.
ResponsesOf(k, maxPages) ==
    UNION {{[m \in 1..n |-> IF has[m] THEN AnnotatedPage(k, m) ELSE BlankPage] :
              has \in [1..n -> BOOLEAN]} : n \in 1..maxPages}

\* The objects the store may hold under key k.
ShardsOf(k, maxPages) ==
    {Corrupt} \cup {Shard(r) : r \in ResponsesOf(k, maxPages)}

\* The object sets over the keys K.
ObjectsOver(K, maxPages) ==
    {f \in [K -> UNION {ShardsOf(k, maxPages) : k \in K}] :
        \A k \in K : f[k] \in ShardsOf(k, maxPages)}

\* The results a job of the pipeline may write: shards 1..n, n >= 1, of one
\* page each.
JobResults == UNION {ObjectsOver(1..n, 1) : n \in 1..JobShards}

\* Objects objs overwritten by the objects written.
Overwrite(objs, written) ==
    [k \in DOMAIN objs \cup DOMAIN written |->
        IF k \in DOMAIN written THEN written[k] ELSE objs[k]]

\* The orders in which a listing may return the keys S.
Listings(S) ==
    {f \in [1..Cardinality(S) -> S] : \A i, j \in DOMAIN f : i # j => f[i] # f[j]}

----------------------------------------------------------------------------
(* write_to_text *)

\* The local variable annotation before its first assignment.
Unbound == [bound |-> FALSE, text |-> <<>>]

RECURSIVE MergePages(_, _, _, _)
\* The inner loop over response['responses'], from page m on: annotation is
\* assigned when the key exists and keeps its previous value otherwise; its
\* text is appended to the file.
MergePages(responses, m, annotation, file) ==
    IF m > Len(responses)
    THEN [err |-> "none", annotation |-> annotation, file |-> file]
    ELSE LET first_page_response == responses[m]
             ann == IF "fullTextAnnotation" \in DOMAIN first_page_response
                    THEN [bound |-> TRUE,
                          text |-> first_page_response.fullTextAnnotation.text]
                    ELSE annotation
         IN  IF ~ann.bound
             THEN [err |-> "UnboundLocalError", annotation |-> ann, file |-> file]
             ELSE MergePages(responses, m + 1, ann, file \o ann.text)

RECURSIVE MergeShards(_, _, _, _, _)
\* The outer loop over blob_list, from index n on: download, json.loads, pages.
MergeShards(blobs, n, objs, annotation, file) ==
    IF n > Len(blobs)
    THEN [err |-> "none", file |-> file]
    ELSE LET response == objs[blobs[n]]
         IN  IF ~response.valid
             THEN [err |-> "JSONDecodeError", file |-> file]
             ELSE LET p == MergePages(response.responses, 1, annotation, file)
                  IN  IF p.err # "none"
                      THEN [err |-> p.err, file |-> p.file]
                      ELSE MergeShards(blobs, n + 1, objs, p.annotation, p.file)

\* Variant: the file is not truncated; the pages are appended to what it held.
write_to_text_append(blobs, objs) == MergeShards(blobs, 1, objs, Unbound, transcription)

\* write_to_text on the listing blobs of the objects objs: the file is
\* truncated by open(.., "w") and every page's text is appended to it.
write_to_text(blobs, objs) == MergeShards(blobs, 1, objs, Unbound, <<>>)

----------------------------------------------------------------------------
(* delete_temporary_files *)

\* Variant: the loop starts at the second blob of the listing.
delete_from_second(blobs, failAt, objs) ==
    LET deleted == {blobs[i] : i \in {j \in DOMAIN blobs :
                                        j > 1 /\ (failAt = 0 \/ j < failAt)}}
    IN  [err |-> IF failAt = 0 THEN "none" ELSE "DeleteError",
         objs |-> [k \in DOMAIN objs \ deleted |-> objs[k]]]

\* The loop over the listing blobs; failAt = 0: every delete succeeds,
\* failAt = i: the delete of blobs[i] raises and ends the loop.
delete_temporary_files(blobs, failAt, objs) ==
    LET deleted == {blobs[i] : i \in {j \in DOMAIN blobs : failAt = 0 \/ j < failAt}}
    IN  [err |-> IF failAt = 0 THEN "none" ELSE "DeleteError",
         objs |-> [k \in DOMAIN objs \ deleted |-> objs[k]]]

----------------------------------------------------------------------------
(* main *)

NoObjects == [k \in {} |-> Corrupt]

\* The two folders of the bucket.
input_folder_name == "input"
output_folder_name == "output"

\* bucket.list_blobs(prefix=...): the input names, the output keys it returns.
InputsUnder(prefix) == IF prefix = input_folder_name THEN inputObjs ELSE {}
OutputsUnder(prefix) == IF prefix = output_folder_name THEN DOMAIN outputObjs ELSE {}

Init ==
    /\ upload_completed = FALSE
    /\ ocr_completed = FALSE
    /\ display_completed = FALSE
    /\ uploaded_file = None
    /\ pc = "idle"
    /\ status = "started"
    /\ inputObjs = {}
    /\ outputObjs = NoObjects
    /\ transcription = <<>>
    /\ blob_list = <<>>
    /\ calls = <<>>
    /\ operation = None
    /\ stale = {}
    /\ puts = 0
    /\ timedOut = FALSE
    /\ submits = 0
    /\ committed = None
    /\ own = {}
    /\ content = <<>>
    /\ fileBefore = <<>>

flags == <<upload_completed, ocr_completed, display_completed>>
store == <<inputObjs, outputObjs>>
backend == <<operation, stale, submits>>

\* The user picks, replaces or removes the file in st.file_uploader; the
\* script reruns with no button pressed.
SelectFile ==
    /\ pc = "idle"
    /\ \E f \in (FileNames \cup {None}) \ {uploaded_file} : uploaded_file' = f
    /\ content' = <<>>
    /\ UNCHANGED <<flags, pc, status, store, transcription, blob_list, own, calls,
                   backend, puts, committed, fileBefore, timedOut>>

\* The user presses a button: the script reruns from the top with that button
\* reported pressed (if the run reaches its st.button call).
Click ==
    /\ pc = "idle"
    /\ \E b \in {"upload", "ocr", "display"} :
          /\ (b = "ocr" /\ upload_completed /\ ~ocr_completed) => submits < MaxSubmits
          /\ pc' = b
    /\ status' = "running"
    /\ calls' = <<>>
    /\ own' = {}
    /\ content' = <<>>
    /\ fileBefore' = <<>>
    /\ UNCHANGED <<flags, uploaded_file, store, transcription, blob_list, backend,
                   puts, committed, timedOut>>

\* Variants: the Upload block without its flag test, the OCR block without
\* the test that gates its button.
UploadGuardNoFlag == uploaded_file # None
OcrGuardNoUpload == ~ocr_completed

\* Variant: the OCR block runs again after ocr_completed was set.
OcrGuardAfterDone == upload_completed

\* The conditions under which each button's block runs.
UploadGuard == uploaded_file # None /\ ~upload_completed
OcrGuard == upload_completed /\ ~ocr_completed
DisplayGuard == ocr_completed /\ ~display_completed

\* Variant: the flag is set although upload_from_file raised.
UploadFailsFlagSet ==
    /\ status' = "UploadError"
    /\ calls' = <<"upload_from_file">>
    /\ upload_completed' = TRUE
    /\ UNCHANGED <<ocr_completed, display_completed, inputObjs, puts, committed, fileBefore,
                   timedOut, submits>>

\* Upload block: blob.upload_from_file raised.
UploadFails ==
    /\ status' = "UploadError"
    /\ calls' = <<"upload_from_file">>
    /\ UNCHANGED <<flags, inputObjs, puts, committed, fileBefore, timedOut, submits>>

\* Upload block: the object is written and the flag set.
UploadSucceeds ==
    /\ inputObjs' = inputObjs \cup {uploaded_file}
    /\ upload_completed' = TRUE
    /\ puts' = puts + 1
    /\ committed' = uploaded_file
    /\ timedOut' = FALSE
    /\ submits' = 0
    /\ status' = "uploaded"
    /\ calls' = <<"upload_from_file">>
    /\ UNCHANGED <<ocr_completed, display_completed, fileBefore>>

RunUpload ==
    /\ pc = "upload"
    /\ pc' = "idle"
    /\ IF UploadGuard
       THEN UploadSucceeds \/ UploadFails
       ELSE /\ status' = "noop_upload"
            /\ UNCHANGED <<flags, inputObjs, puts, committed, fileBefore, timedOut,
                   submits, calls>>
    /\ UNCHANGED <<uploaded_file, outputObjs, transcription, content, blob_list, own,
                   operation, stale>>

\* async_detect_document: the backend rejects the request.
SubmitRejected ==
    /\ submits' = submits + 1
    /\ calls' = <<"async_batch_annotate_files">>
    /\ status' = "SubmissionError"
    /\ pc' = "idle"
    /\ UNCHANGED operation

\* async_detect_document: the backend returns an operation.
SubmitAccepted ==
    /\ submits' = submits + 1
    /\ calls' = <<"async_batch_annotate_files">>
    /\ operation' = uploaded_file
    /\ status' = "submitted"
    /\ pc' = "await"

\* OCR block up to the submit call; uploaded_file.name raises when the
\* uploader is empty.
RunOcr ==
    /\ pc = "ocr"
    /\ IF OcrGuard
       THEN IF uploaded_file = None
            THEN /\ status' = "AttributeError"
                 /\ pc' = "idle"
                 /\ UNCHANGED <<operation, submits, calls>>
            ELSE SubmitAccepted \/ SubmitRejected
       ELSE /\ status' = "noop_ocr"
            /\ pc' = "idle"
            /\ UNCHANGED <<operation, submits, calls>>
    /\ UNCHANGED <<flags, uploaded_file, store, transcription, content, blob_list, own,
                   stale, puts, committed, fileBefore, timedOut>>

\* operation.result returns: the job has written its shards.
AwaitDone ==
    /\ pc = "await"
    /\ \E written \in JobResults :
          /\ outputObjs' = Overwrite(outputObjs, written)
          /\ own' = DOMAIN written
    /\ operation' = None
    /\ calls' = Append(calls, "result")
    /\ status' = "awaited"
    /\ pc' = "merge"
    /\ UNCHANGED <<flags, uploaded_file, inputObjs, transcription, content, blob_list,
                   stale, puts, committed, fileBefore, timedOut, submits>>

\* Variant: operation.result is called without a timeout and polls on.
AwaitPollsOn ==
    /\ pc = "await"
    /\ UNCHANGED vars

\* Variant: the TimeoutError is swallowed and the handler goes on to merge.
AwaitTimeoutSwallowed ==
    /\ pc = "await"
    /\ stale' = stale \cup {operation}
    /\ operation' = None
    /\ calls' = Append(calls, "result")
    /\ timedOut' = TRUE
    /\ status' = "TimeoutError"
    /\ pc' = "merge"
    /\ UNCHANGED <<flags, uploaded_file, store, transcription, content, blob_list, own,
                   puts, committed, fileBefore, submits>>

\* operation.result(timeout=420) raises TimeoutError; the job runs on remotely.
AwaitTimeout ==
    /\ pc = "await"
    /\ stale' = stale \cup {operation}
    /\ operation' = None
    /\ calls' = Append(calls, "result")
    /\ timedOut' = TRUE
    /\ status' = "TimeoutError"
    /\ pc' = "idle"
    /\ UNCHANGED <<flags, uploaded_file, store, transcription, content, blob_list, own,
                   puts, committed, fileBefore, submits>>

\* Variant: the backend's error is swallowed and the handler goes on to merge.
AwaitFailedGoesOn ==
    /\ pc = "await"
    /\ operation' = None
    /\ calls' = Append(calls, "result")
    /\ status' = "BackendError"
    /\ pc' = "merge"
    /\ UNCHANGED <<flags, uploaded_file, store, transcription, content, blob_list, own,
                   stale, puts, committed, fileBefore, timedOut, submits>>

\* operation.result raises the error the backend reported.
AwaitFailed ==
    /\ pc = "await"
    /\ operation' = None
    /\ calls' = Append(calls, "result")
    /\ status' = "BackendError"
    /\ pc' = "idle"
    /\ UNCHANGED <<flags, uploaded_file, store, transcription, content, blob_list, own,
                   stale, puts, committed, fileBefore, timedOut, submits>>

\* write_to_text: list the prefix, truncate the file, merge.
Merge ==
    /\ pc = "merge"
    /\ \E blobs \in Listings(DOMAIN outputObjs) :
          LET r == write_to_text(blobs, outputObjs)
          IN  /\ transcription' = r.file
              /\ blob_list' = blobs
              /\ IF r.err = "none"
                 THEN /\ status' = "merged"
                      /\ pc' = "cleanup"
                 ELSE /\ status' = r.err
                      /\ pc' = "idle"
    /\ fileBefore' = transcription
    /\ calls' = Append(calls, "write_to_text")
    /\ UNCHANGED <<flags, uploaded_file, store, backend, puts, committed, timedOut,
                   own, content>>

\* Variant: the handler passes the input folder to delete_temporary_files.
PurgePrefixInput == input_folder_name

\* The prefix the handler passes to delete_temporary_files.
PurgePrefix == output_folder_name

\* delete_temporary_files, then ocr_completed = True if it returned.
Cleanup ==
    /\ pc = "cleanup"
    /\ \E blobs \in Listings(OutputsUnder(PurgePrefix)) :
       \E failAt \in 0..Len(blobs) :
          LET r == delete_temporary_files(blobs, failAt, outputObjs)
          IN  /\ outputObjs' = r.objs
              /\ inputObjs' = inputObjs \ InputsUnder(PurgePrefix)
              /\ own' = own \cap DOMAIN r.objs
              /\ ocr_completed' = (r.err = "none")
              /\ status' = IF r.err = "none" THEN "ocr_done" ELSE r.err
    /\ calls' = Append(calls, "delete_temporary_files")
    /\ pc' = "idle"
    /\ UNCHANGED <<upload_completed, display_completed, uploaded_file,
                   transcription, content, blob_list, backend, puts, committed, fileBefore,
                   timedOut>>

\* Variant: the Display block leaves upload_completed set.
RunDisplayKeepsUpload ==
    /\ pc = "display"
    /\ pc' = "idle"
    /\ IF DisplayGuard
       THEN /\ ocr_completed' = FALSE
            /\ display_completed' = FALSE
            /\ content' = transcription
            /\ status' = "displayed"
            /\ UNCHANGED <<upload_completed, puts, committed, timedOut, fileBefore>>
       ELSE /\ status' = "noop_display"
            /\ UNCHANGED <<flags, puts, committed, fileBefore, timedOut, content>>
    /\ UNCHANGED <<uploaded_file, store, transcription, blob_list, own, calls, backend>>

\* Variant: the Display block leaves ocr_completed set.
RunDisplayKeepsOcr ==
    /\ pc = "display"
    /\ pc' = "idle"
    /\ IF DisplayGuard
       THEN /\ upload_completed' = FALSE
            /\ display_completed' = FALSE
            /\ puts' = 0
            /\ committed' = None
            /\ content' = transcription
            /\ status' = "displayed"
            /\ UNCHANGED <<ocr_completed, timedOut, fileBefore>>
       ELSE /\ status' = "noop_display"
            /\ UNCHANGED <<flags, puts, committed, fileBefore, timedOut, content>>
    /\ UNCHANGED <<uploaded_file, store, transcription, blob_list, own, calls, backend>>

\* Display block: show the file in the text area, clear the flags.
RunDisplay ==
    /\ pc = "display"
    /\ pc' = "idle"
    /\ IF DisplayGuard
       THEN /\ upload_completed' = FALSE
            /\ ocr_completed' = FALSE
            /\ display_completed' = FALSE
            /\ puts' = 0
            /\ committed' = None
            /\ content' = transcription
            /\ status' = "displayed"
            /\ UNCHANGED <<timedOut, fileBefore>>
       ELSE /\ status' = "noop_display"
            /\ UNCHANGED <<flags, puts, committed, fileBefore, timedOut, content>>
    /\ UNCHANGED <<uploaded_file, store, transcription, blob_list, own, calls, backend>>

\* A timed-out job finishes remotely and writes its shards.
StaleJobWrites ==
    /\ \E d \in stale :
          /\ \E written \in JobResults :
                /\ outputObjs' = Overwrite(outputObjs, written)
                /\ own' = own \ DOMAIN written
          /\ stale' = stale \ {d}
    /\ UNCHANGED <<flags, uploaded_file, pc, status, inputObjs, transcription, content,
                   blob_list, calls, operation, puts, committed, fileBefore, timedOut, submits>>

Next ==
    \/ SelectFile
    \/ Click
    \/ RunUpload
    \/ RunOcr
    \/ AwaitDone
    \/ AwaitTimeout
    \/ AwaitFailed
    \/ Merge
    \/ Cleanup
    \/ RunDisplay
    \/ StaleJobWrites

Spec == Init /\ [][Next]_vars

\* operation.result(timeout=420) raises when 420 s have passed with no answer
\* of the backend: a wait cannot last for ever.
SpecLive == Spec /\ WF_vars(AwaitTimeout)

----------------------------------------------------------------------------
(* The merge and cleanup steps on their own: the handler stands before        *)
(* write_to_text, the prefix holding any set of shards of one or two pages.   *)

\* What transcription.txt may hold from an earlier job.
EarlierText == PageText(0, 0)

InitMerge ==
    /\ upload_completed = TRUE
    /\ ocr_completed = FALSE
    /\ display_completed = FALSE
    /\ uploaded_file = "a.pdf"
    /\ pc = "merge"
    /\ status = "awaited"
    /\ inputObjs = {"a.pdf"}
    /\ \E K \in SUBSET (1..MaxShards) : outputObjs \in ObjectsOver(K, 2)
    /\ transcription \in {<<>>, EarlierText}
    /\ blob_list = <<>>
    /\ calls = <<"async_batch_annotate_files", "result">>
    /\ operation = None
    /\ stale = {}
    /\ puts = 1
    /\ timedOut = FALSE
    /\ submits = 1
    /\ committed = "a.pdf"
    /\ own \in {DOMAIN outputObjs \cap (1..n) : n \in {JobShards, MaxShards}}
    /\ content = <<>>
    /\ fileBefore = <<>>

NextMerge ==
    \/ Merge
    \/ Cleanup

SpecMerge == InitMerge /\ [][NextMerge]_vars

----------------------------------------------------------------------------
(* Properties *)

RECURSIVE SortedKeys(_)
\* The keys S in ascending order.
SortedKeys(S) ==
    IF S = {} THEN <<>>
    ELSE LET least == CHOOSE x \in S : \A y \in S : x <= y
         IN  <<least>> \o SortedKeys(S \ {least})

\* The segment a page is expected to contribute: its text, or nothing.
Segment(page) ==
    IF "fullTextAnnotation" \in DOMAIN page THEN page.fullTextAnnotation.text ELSE <<>>

RECURSIVE PagesText(_, _)
\* The segments of the pages m.. of a shard, in page order.
PagesText(responses, m) ==
    IF m > Len(responses) THEN <<>>
    ELSE Segment(responses[m]) \o PagesText(responses, m + 1)

RECURSIVE ExpectedTranscript(_, _, _)
\* The segments of the shards keys[n..], in that order.
ExpectedTranscript(keys, n, objs) ==
    IF n > Len(keys) THEN <<>>
    ELSE PagesText(objs[keys[n]].responses, 1) \o ExpectedTranscript(keys, n + 1, objs)

WellFormed(objs) == \A k \in DOMAIN objs : objs[k].valid

FullyAnnotated(shard) ==
    /\ shard.valid
    /\ \A m \in DOMAIN shard.responses : "fullTextAnnotation" \in DOMAIN shard.responses[m]

\* The last function the script run called.
LastCall == IF calls = <<>> THEN "none" ELSE calls[Len(calls)]

\* C1 (as claimed): after write_to_text ran on valid shards whose pages all
\* carry an annotation, whatever the listing order was, it has returned and the
\* transcript is the pages' text in (shard key, page index) order.
C1_MergeInKeyOrder ==
    (LastCall = "write_to_text" /\ \A k \in DOMAIN outputObjs : FullyAnnotated(outputObjs[k]))
        => /\ status = "merged"
           /\ transcription = ExpectedTranscript(SortedKeys(DOMAIN outputObjs), 1, outputObjs)

\* C2 (as claimed): after write_to_text ran on valid shards, it has returned
\* and the transcript is, in the order the shards were listed, every page's
\* own text, a page without fullTextAnnotation contributing nothing.
C2_BlankPageEmptySegment ==
    (LastCall = "write_to_text" /\ WellFormed(outputObjs))
        => /\ status = "merged"
           /\ transcription = ExpectedTranscript(blob_list, 1, outputObjs)

\* C3 (as claimed): after write_to_text ran on shards 1, 2, 3 listed in that
\* order, 2 not valid JSON, 1 and 3 valid and fully annotated, it has returned
\* and the transcript is the text of shard 1 followed by the text of shard 3.
C3_CorruptShardSkipped ==
    (/\ LastCall = "write_to_text"
     /\ blob_list = <<1, 2, 3>>
     /\ ~outputObjs[2].valid
     /\ FullyAnnotated(outputObjs[1])
     /\ FullyAnnotated(outputObjs[3]))
        => /\ status = "merged"
           /\ transcription = PagesText(outputObjs[1].responses, 1)
                                 \o PagesText(outputObjs[3].responses, 1)

\* C4: when delete_temporary_files, run after a merge that returned, returns
\* (the handler goes on to set ocr_completed), no object is left under the
\* output prefix.
C4_CleanupEmptiesPrefix ==
    [][(pc = "cleanup" /\ ocr_completed') => DOMAIN outputObjs' = {}]_vars

\* C4 witness: cleanup returned after a merge over MaxShards objects.
C4_Witness ==
    /\ status = "ocr_done"
    /\ Len(blob_list) = MaxShards
    /\ DOMAIN outputObjs = {}

\* C5: a wait that ends in TimeoutError ends the script run: write_to_text and
\* delete_temporary_files are not called, the objects under the output prefix
\* and the transcript file are as before, and ocr_completed is not set.
C5_TimeoutEndsRun ==
    /\ [][(pc = "await" /\ status' = "TimeoutError")
             => /\ pc' = "idle"
                /\ calls' = <<"async_batch_annotate_files", "result">>
                /\ outputObjs' = outputObjs
                /\ transcription' = transcription
                /\ ~ocr_completed']_vars
    /\ [][(pc = "ocr" /\ pc' # pc)
             => (outputObjs' = outputObjs /\ transcription' = transcription)]_vars

\* C5 witness: a wait timed out with objects under the output prefix.
C5_Witness ==
    /\ status = "TimeoutError"
    /\ pc = "idle"
    /\ DOMAIN outputObjs # {}

\* C6 (as claimed): once a wait has timed out, no script run of the same upload
\* cycle calls async_batch_annotate_files.
C6_NoResubmitAfterTimeout ==
    timedOut => calls # <<"async_batch_annotate_files">>

\* A step of the script run (an object written by a remote job leaves pc).
RunStep == pc' # pc

\* C7: a run with the OCR button pressed while upload_completed is false, or
\* with the Display button pressed while ocr_completed is false, ends without
\* a call and changes neither the flags, the store, the backend nor the file.
C7_OutOfOrderTriggerIgnored ==
    [][(RunStep /\ ((pc = "ocr" /\ ~upload_completed)
                      \/ (pc = "display" /\ ~ocr_completed)))
          => /\ pc' = "idle"
             /\ calls' = <<>>
             /\ UNCHANGED <<flags, store, transcription, backend, puts>>]_vars

\* C7 witness: the OCR button was pressed with no upload acknowledged while a
\* file was selected.
C7_Witness ==
    /\ status = "noop_ocr"
    /\ ~upload_completed
    /\ uploaded_file # None

\* C8: at most one upload is committed between two resets; a run with the
\* Upload button pressed while upload_completed is set writes nothing, and a
\* run with the OCR button pressed while ocr_completed is set submits, merges
\* and deletes nothing.
C8_ConsumedTransitionOnce ==
    /\ [](puts <= 1)
    /\ [][(RunStep /\ pc = "upload" /\ upload_completed)
             => /\ calls' = <<>>
                /\ UNCHANGED <<flags, store, puts>>]_vars
    /\ [][(RunStep /\ pc = "ocr" /\ ocr_completed)
             => /\ pc' = "idle"
                /\ calls' = <<>>
                /\ UNCHANGED <<flags, store, transcription, backend>>]_vars

\* C8 witness: the Upload button was pressed again after the upload of this
\* cycle, with a file selected.
C8_Witness ==
    /\ status = "noop_upload"
    /\ upload_completed
    /\ uploaded_file # None
    /\ puts = 1

\* C9 (as claimed): after delete_temporary_files ran, ocr_completed is set and
\* at most the object whose delete failed is left under the output prefix.
C9_DeleteFailureRecovered ==
    LastCall = "delete_temporary_files"
        => /\ ocr_completed
           /\ Cardinality(DOMAIN outputObjs) <= 1

\* C10: after upload_from_file raised, upload_completed is not set; after the
\* backend rejected the request, upload_completed is set, ocr_completed is not,
\* and the OCR block still runs on the next press.
C10_FailureKeepsStage ==
    /\ status = "UploadError" => (pc = "idle" /\ ~upload_completed /\ ~ocr_completed)
    /\ status = "SubmissionError" =>
          (pc = "idle" /\ upload_completed /\ ~ocr_completed /\ OcrGuard)

\* C10 witness: the backend rejected the request of a retry.
C10_Witness ==
    /\ status = "SubmissionError"
    /\ submits = 2

\* The shard keys whose text stands in the transcript.
KeysInTranscript == {transcription[i][1] : i \in DOMAIN transcription}

\* C11 (as claimed): after write_to_text returned, the transcript holds only
\* text of shards the job of this run wrote; objects an earlier job left
\* under the prefix contribute nothing.
C11_OnlyOwnShardsMerged ==
    status = "merged" => KeysInTranscript \subseteq own

\* C12 (as claimed): the output prefix belongs to one job at a time; while the
\* handler has a job in flight on it, or reads or purges it, no timed-out job
\* is still running that writes under the same prefix.
C12_PrefixExclusivelyOwned ==
    pc \in {"await", "merge", "cleanup"} => stale = {}

\* C13: a run of delete_temporary_files deletes nothing under the input
\* folder, and the object the Upload block wrote in this cycle is still there.
C13_CleanupKeepsSource ==
    /\ [][(pc = "cleanup" /\ RunStep) => inputObjs' = inputObjs]_vars
    /\ [](committed # None => committed \in inputObjs)

\* C13 witness: delete_temporary_files has emptied the output prefix and the
\* uploaded object is in the input folder.
C13_Witness ==
    /\ LastCall = "delete_temporary_files"
    /\ status = "ocr_done"
    /\ committed \in inputObjs
    /\ blob_list # <<>>
    /\ DOMAIN outputObjs = {}

\* C14: a run with the Display button pressed while ocr_completed is set shows
\* the content of transcription.txt and ends with the three flags false: the
\* OCR and Display blocks are closed, the Upload block is open for the file
\* in the uploader.
C14_DisplayResets ==
    [][(pc = "display" /\ RunStep /\ ocr_completed) =>
          /\ content' = transcription
          /\ status' = "displayed"
          /\ pc' = "idle"
          /\ ~upload_completed' /\ ~ocr_completed' /\ ~display_completed'
          /\ ~OcrGuard' /\ ~DisplayGuard'
          /\ (uploaded_file' # None => UploadGuard')]_vars

\* C14 witness: the transcript of a completed OCR run has been displayed and
\* the Upload block is open again.
C14_Witness ==
    /\ status = "displayed"
    /\ content # <<>>
    /\ UploadGuard

\* C15 (as claimed): the source of every job the OCR block submits is the
\* object the Upload block wrote in this cycle, whatever the user did with the
\* uploader in between.
C15_SourceIsCommittedObject ==
    operation # None => operation = committed

\* The calls of an OCR run that succeeds, in the order of the OCR block.
OcrSteps ==
    <<"async_batch_annotate_files", "result", "write_to_text", "delete_temporary_files">>

\* C16: an OCR run calls submit, result, write_to_text, delete_temporary_files
\* in this order: it waits only after the submit returned an operation, merges
\* only after result returned, purges only after the merge returned, sets
\* ocr_completed only in the step in which the purge returned; a run that ended
\* any other way made no later call and left ocr_completed unset.
C16_StepsInOrder ==
    /\ [](/\ pc = "await" => (calls = SubSeq(OcrSteps, 1, 1) /\ status = "submitted")
          /\ pc = "merge" => (calls = SubSeq(OcrSteps, 1, 2) /\ status = "awaited")
          /\ pc = "cleanup" => (calls = SubSeq(OcrSteps, 1, 3) /\ status = "merged")
          /\ (calls # <<>> /\ calls[1] = OcrSteps[1]) =>
                /\ Len(calls) <= Len(OcrSteps)
                /\ calls = SubSeq(OcrSteps, 1, Len(calls))
                /\ (pc = "idle" /\ status # "ocr_done") => ~ocr_completed)
    /\ [][(~ocr_completed /\ ocr_completed') =>
             (pc = "cleanup" /\ calls' = OcrSteps /\ status' = "ocr_done")]_vars

\* C16 witness: an OCR run went through its four calls and set the flag.
C16_Witness ==
    /\ calls = OcrSteps
    /\ status = "ocr_done"
    /\ ocr_completed
    /\ transcription # <<>>

RECURSIVE PageCount(_, _, _)
\* The number of pages of the shards keys[n..].
PageCount(keys, n, objs) ==
    IF n > Len(keys) THEN 0
    ELSE Len(objs[keys[n]].responses) + PageCount(keys, n + 1, objs)

\* C17: when write_to_text has returned, transcription.txt holds only text
\* written in this run, whatever it held before: every segment is text of a
\* shard of this run's listing and there is at most one segment per listed
\* page.
C17_MergeStartsEmpty ==
    status = "merged" =>
        /\ KeysInTranscript \subseteq {blob_list[i] : i \in DOMAIN blob_list}
        /\ Len(transcription) <= PageCount(blob_list, 1, outputObjs)

\* C17 witness: write_to_text found text of an earlier job in the file and
\* has merged the shards of this run.
C17_Witness ==
    /\ status = "merged"
    /\ fileBefore # <<>>
    /\ transcription # <<>>

\* A flag goes from True to False in this step.
FlagCleared ==
    \/ upload_completed /\ ~upload_completed'
    \/ ocr_completed /\ ~ocr_completed'
    \/ display_completed /\ ~display_completed'

\* C18: ocr_completed is set only while upload_completed is, display_completed
\* is never set, and a flag is cleared only by the Display block, which leaves
\* the three flags false.
C18_FlagsValid ==
    /\ [](ocr_completed => upload_completed)
    /\ [](~display_completed)
    /\ [][FlagCleared =>
             /\ pc = "display"
             /\ DisplayGuard
             /\ ~upload_completed' /\ ~ocr_completed' /\ ~display_completed']_vars

\* C18 witness: the Display block has cleared the flags of a cycle that went
\* through upload and OCR, the uploader being empty.
C18_Witness ==
    /\ status = "displayed"
    /\ ~upload_completed /\ ~ocr_completed /\ ~display_completed
    /\ uploaded_file = None
    /\ inputObjs # {}

\* C19: ocr_completed is set only by a run whose write_to_text returned and
\* whose delete_temporary_files returned, leaving the file as the merge wrote
\* it; the file is written only by write_to_text and never while ocr_completed
\* is set; the Display block shows the file only while ocr_completed is set.
\* So what is displayed is the file as the merge of that run finished it.
C19_DisplayedTranscriptComplete ==
    /\ [][(~ocr_completed /\ ocr_completed') =>
             /\ status = "merged"
             /\ calls' = OcrSteps
             /\ transcription' = transcription]_vars
    /\ [][transcription' # transcription => (pc = "merge" /\ ~ocr_completed)]_vars
    /\ [][(pc = "display" /\ RunStep) =>
             content' = IF ocr_completed THEN transcription ELSE <<>>]_vars

\* C19 witness: a transcript is displayed in a cycle whose first OCR attempt
\* failed.
C19_Witness ==
    /\ status = "displayed"
    /\ content # <<>>
    /\ submits = 2

\* C20: every wait in operation.result ends: a run that stands in the wait
\* leaves it, because the backend answered (done or error) or because the
\* timeout raised.
C20_WaitEnds == (pc = "await") ~> (pc # "await")

\* C20 witness: a wait was ended by the timeout, the job still running.
C20_Witness ==
    /\ LastCall = "result"
    /\ status = "TimeoutError"
    /\ stale # {}
    /\ submits = 1

====
